---------------------------- MODULE Spec2Model ----------------------------
(***************************************************************************)
(* Model of data_processing.py (MERRA2 weather processing).                *)
(*                                                                         *)
(* Numbers are fixed point: temperatures are whole kelvin, pressures whole *)
(* pascal, relative humidity is in percent (0.5 is 50), densities are in   *)
(* units of 1e-9 kg/m3, wind speeds in units of 1e-3 m/s, the raw time     *)
(* axis in units of 1e-3 of the time unit.                                 *)
(***************************************************************************)
EXTENDS Integers, Sequences, FiniteSets

VARIABLES
    pc,         \* position of fetch_and_process_data
    readable,   \* environment: whether open(file_path) succeeds
    manifest,   \* the lines of the manifest file, header first
    urls,       \* file.readlines()[1:]
    i,          \* index of the loop "for url in urls" (1-based)
    u_50, v_50, T2M, PS, DateTimes,   \* the five accumulators
    content,    \* result.content of the source being processed
    disk,       \* temporary artifacts present under output_dir
    data,       \* the binding of the local "data" (dataset handle)
    requests,   \* every requests.get made so far, in order
    log,        \* how each processed source ended
    csv,        \* the rows at save_path
    writes,     \* number of writes of save_path
    raised,     \* the exception that left fetch_and_process_data
    df,         \* the value returned by fetch_and_process_data
    temp_col, pres_col, humi_col,   \* arguments of compute_air_density
    rho,        \* outcome of the call with humi_col
    rho_omitted \* outcome of the call with humi_col omitted

vars == <<pc, readable, manifest, urls, i, u_50, v_50, T2M, PS, DateTimes,
          content, disk, data, requests, log, csv, writes, raised, df,
          temp_col, pres_col, humi_col, rho, rho_omitted>>

pipeVars == <<pc, readable, manifest, urls, i, u_50, v_50, T2M, PS, DateTimes,
              content, disk, data, requests, log, csv, writes, raised, df>>

densVars == <<temp_col, pres_col, humi_col, rho, rho_omitted>>

-----------------------------------------------------------------------------
(* Bounds *)

MaxSources == 3
MaxLen == 2

-----------------------------------------------------------------------------
(* compute_air_density *)

\* humi_col = None
None == [given |-> FALSE, col |-> <<>>]

Some(col) == [given |-> TRUE, col |-> col]

\* 0.5, the fill value of np.full(temp_col.shape, 0.5), in percent
DefaultHumidity == 50

\* 1 / R_const with R_const = 287.05, in 1e-9
R_inv == 3483713

\* 1 / Rw_const with Rw_const = 461.5, in 1e-9
Rw_inv == 2166847

\* 0.0000205, in 1e-9
VapCoef == 20500

\* 0.0631846, in 1e-4
ExpRate == 632

\* np.full(shape, value)
full(shape, value) == [k \in 1..shape |-> value]

\* any(col < 0)
AnyNegative(col) == \E k \in 1..Len(col) : col[k] < 0

\* The Taylor series of exp from term number k on; x and term in 1e-4.
RECURSIVE ExpSeries(_, _, _)
ExpSeries(x, term, k) ==
    IF term = 0 THEN 0
    ELSE term + ExpSeries(x, (term * x) \div (k * 10000), k + 1)

\* np.exp(x) for x >= 0, argument and result in 1e-4
exp(x) == ExpSeries(x, 10000, 1)

\* One element of rho: (1 / T) * (P / R - RH * (0.0000205 * exp(0.0631846 * T))
\* * (1 / R - 1 / Rw)).  1 / 0 is inf in floating point, so T = 0 gives inf,
\* -inf or nan by the sign of the second factor.
RhoAt(T, P, RH) ==
    LET vap   == (VapCoef * exp(ExpRate * T)) \div 10000
        wet   == (RH * ((vap * ((R_inv - Rw_inv) \div 1000)) \div 1000000)) \div 100
        inner == P * R_inv - wet
    IN  IF T = 0
        THEN [kind |-> IF inner > 0 THEN "inf"
                       ELSE IF inner < 0 THEN "-inf" ELSE "nan",
              val |-> 0]
        ELSE [kind |-> "finite", val |-> inner \div T]

\* RelHumidity with the omitted humidity filled with 0 instead of 0.5.
RelHumidityZero(t, h) ==
    IF h.given THEN h.col ELSE full(Len(t), 0)

\* rel_humidity = humi_col if humi_col is not None else np.full(temp_col.shape, 0.5)
RelHumidity(t, h) ==
    IF h.given THEN h.col ELSE full(Len(t), DefaultHumidity)

\* InvalidInput without the check of the humidity array.
InvalidInputNoHumidity(t, p, rh) == AnyNegative(t) \/ AnyNegative(p)

\* The validation of line 13.
InvalidInput(t, p, rh) == AnyNegative(t) \/ AnyNegative(p) \/ AnyNegative(rh)

compute_air_density(t, p, h) ==
    LET rel_humidity == RelHumidity(t, h)
    IN  IF InvalidInput(t, p, rel_humidity)
        THEN [raised |-> "ValueError: negative values", rho |-> <<>>]
        ELSE [raised |-> "none",
              rho |-> [k \in 1..Len(t) |-> RhoAt(t[k], p[k], rel_humidity[k])]]

-----------------------------------------------------------------------------
(* The manifest, the sources and their payloads *)

HeaderLine == [kind |-> "header", date |-> 0]

\* The k-th source URL; characters 108..115 of it spell the date k.
UrlLine(k) == [kind |-> "url", date |-> k]

\* A manifest: nothing at all, or a header followed by n source URLs.
Manifests ==
    {<<>>} \cup {<<HeaderLine>> \o [k \in 1..n |-> UrlLine(k)] : n \in 0..MaxSources}

\* readlines_tail without the slice: the header is kept.
readlines_all(lines) == lines

\* file.readlines()[1:]
readlines_tail(lines) == SubSeq(lines, 2, Len(lines))

\* url[108:116].strip() + '-site.nc4'
file_name(url) == [stem |-> url.date, suffix |-> "-site.nc4"]

\* One timestep of a site file.
sA == [time |-> 1500, U50M |-> 3, V50M |-> 4, T2M |-> 2, PS |-> 1]
sB == [time |-> 0, U50M |-> -1, V50M |-> 0, T2M |-> 1, PS |-> 2]
sN == [time |-> 2000, U50M |-> 0, V50M |-> 1, T2M |-> -1, PS |-> 1]
sP == [time |-> 3250, U50M |-> 1, V50M |-> 1, T2M |-> 1, PS |-> -1]

\* The time series the remote archive may serve.
SampleSeqs == {<<sB>>, <<sA, sB>>, <<sN, sP>>}

\* The dataset a payload decodes to: each variable is indexed
\* [time][lat][lon] with a single grid cell; the time axis is numeric with a
\* units attribute (the epoch, in seconds).
NC4(samples) ==
    [U50M  |-> [t \in 1..Len(samples) |-> <<<<samples[t].U50M>>>>],
     V50M  |-> [t \in 1..Len(samples) |-> <<<<samples[t].V50M>>>>],
     T2M   |-> [t \in 1..Len(samples) |-> <<<<samples[t].T2M>>>>],
     PS    |-> [t \in 1..Len(samples) |-> <<<<samples[t].PS>>>>],
     time  |-> [t \in 1..Len(samples) |-> samples[t].time],
     units |-> 100]

NoContent == NC4(<<>>)

\* [val[0][0] for val in data.variables[name][:]]
Column(var) == [t \in 1..Len(var) |-> var[t][1][1]]

\* num2date(times, units): times in 1e-3 s after the epoch of units
num2date(times, units) ==
    [t \in 1..Len(times) |->
        [sec |-> units + (times[t] \div 1000), us |-> (times[t] % 1000) * 1000]]

\* Extend putting the new values in front.
ExtendFront(acc, vals) == vals \o acc

\* list.extend
Extend(acc, vals) == acc \o vals

\* dt.strftime('%Y-%m-%d %H:%M:%S'): the text names the second, nothing finer
strftime(dt) == [text |-> "%Y-%m-%d %H:%M:%S", sec |-> dt.sec]

\* pd.to_datetime(text)
to_datetime(s) == [sec |-> s.sec, us |-> 0]

\* The largest r in lo..hi-1 with r * r <= n, given lo * lo <= n < hi * hi.
RECURSIVE SqrtSearch(_, _, _)
SqrtSearch(n, lo, hi) ==
    IF hi - lo <= 1 THEN lo
    ELSE LET mid == (lo + hi) \div 2
         IN  IF mid * mid <= n THEN SqrtSearch(n, mid, hi)
             ELSE SqrtSearch(n, lo, mid)

\* np.sqrt(x), result in 1e-3
sqrt(x) == SqrtSearch(x * 1000000, 0, 46340)

NoHandle == [bound |-> FALSE, file |-> file_name(HeaderLine), closed |-> TRUE]

-----------------------------------------------------------------------------
(* create_dataframe *)

RECURSIVE InsertByTime(_, _)
InsertByTime(row, rows) ==
    IF rows = <<>> THEN <<row>>
    ELSE IF row.datetime.sec <= Head(rows).datetime.sec THEN <<row>> \o rows
    ELSE <<Head(rows)>> \o InsertByTime(row, Tail(rows))

RECURSIVE SortByTime(_)
SortByTime(rows) ==
    IF rows = <<>> THEN <<>> ELSE InsertByTime(Head(rows), SortByTime(Tail(rows)))

\* DataFrame followed by a sort of the rows by timestamp.
DataFrameSorted(dts, ps, u, v, t) ==
    SortByTime([k \in 1..Len(dts) |->
        [datetime |-> dts[k], surface_pressure |-> ps[k],
         u_50 |-> u[k], v_50 |-> v[k], temp_2m |-> t[k]]])

\* pd.DataFrame({'datetime': ..., 'surface_pressure': PS, 'u_50': u_50,
\*               'v_50': v_50, 'temp_2m': T2M}) for columns of one length
DataFrame(dts, ps, u, v, t) ==
    [k \in 1..Len(dts) |->
        [datetime |-> dts[k], surface_pressure |-> ps[k],
         u_50 |-> u[k], v_50 |-> v[k], temp_2m |-> t[k]]]

\* The outcome of create_dataframe up to the write: the exception it raises
\* or the table it is about to save.
create_dataframe(dts, u, v, t, ps) ==
    LET stamps == [k \in 1..Len(dts) |-> to_datetime(strftime(dts[k]))]
        lens   == {Len(stamps), Len(ps), Len(u), Len(v), Len(t)}
    IN  IF Cardinality(lens) > 1
        THEN [raised |-> "ValueError: All arrays must be of the same length",
              df |-> <<>>]
        ELSE
          LET base == DataFrame(stamps, ps, u, v, t)
              dens == compute_air_density(t, ps, None)
          IN  IF dens.raised # "none"
              THEN [raised |-> dens.raised, df |-> <<>>]
              ELSE IF Len(base) = 0
              THEN \* an empty 'datetime' column is not datetime-like
                   [raised |-> "AttributeError: .dt accessor", df |-> <<>>]
              ELSE [raised |-> "none",
                    df |-> [k \in 1..Len(base) |->
                        [datetime         |-> strftime(base[k].datetime),
                         surface_pressure |-> base[k].surface_pressure,
                         u_50             |-> base[k].u_50,
                         v_50             |-> base[k].v_50,
                         temp_2m          |-> base[k].temp_2m,
                         dens_50m         |-> dens.rho[k],
                         ws_50m           |-> sqrt(base[k].u_50 * base[k].u_50
                                                   + base[k].v_50 * base[k].v_50)]]]

-----------------------------------------------------------------------------
(* fetch_and_process_data *)

NotCalled == [raised |-> "pending", rho |-> <<>>]

Init ==
    /\ pc = "start"
    /\ readable \in BOOLEAN
    /\ manifest \in Manifests
    /\ urls = <<>>
    /\ i = 1
    /\ u_50 = <<>> /\ v_50 = <<>> /\ T2M = <<>> /\ PS = <<>> /\ DateTimes = <<>>
    /\ content = NoContent
    /\ disk = {}
    /\ data = NoHandle
    /\ requests = <<>>
    /\ log = <<>>
    /\ csv = <<>>
    /\ writes = 0
    /\ raised = "none"
    /\ df = <<>>
    /\ temp_col = <<>> /\ pres_col = <<>> /\ humi_col = None
    /\ rho = NotCalled /\ rho_omitted = NotCalled

\* ReadManifest that goes on with the listed sources whether or not the
\* manifest could be read.
ReadManifestLenient ==
    /\ pc = "start"
    /\ urls' = readlines_tail(manifest)
    /\ pc' = "loop"
    /\ UNCHANGED <<readable, manifest, i, u_50, v_50, T2M, PS, DateTimes,
                   content, disk, data, requests, log, csv, writes, raised, df>>
    /\ UNCHANGED densVars

\* Lines 26-29: read the manifest; an unreadable manifest raises.
ReadManifest ==
    /\ pc = "start"
    /\ IF readable
       THEN /\ urls' = readlines_tail(manifest)
            /\ pc' = "loop"
            /\ raised' = raised
       ELSE /\ urls' = urls
            /\ pc' = "failed"
            /\ raised' = "OSError: manifest"
    /\ UNCHANGED <<readable, manifest, i, u_50, v_50, T2M, PS, DateTimes,
                   content, disk, data, requests, log, csv, writes, df>>
    /\ UNCHANGED densVars

\* Lines 32-39 and 51-52: the retrieval fails and the except clause logs it:
\* a transport error, a non-success status, open(full_path, 'wb') failing
\* ("create", no artifact), or the write of the payload failing after the
\* artifact was created ("write", the artifact stays).
RetrieveFails ==
    /\ pc = "loop"
    /\ i <= Len(urls)
    /\ \E outcome \in {"transport", "status", "create", "write"} :
        /\ log' = Append(log, [url |-> urls[i], outcome |-> outcome,
                               content |-> NoContent])
        /\ disk' = IF outcome = "write"
                   THEN disk \cup {file_name(urls[i])} ELSE disk
    /\ requests' = Append(requests, urls[i])
    /\ i' = i + 1
    /\ UNCHANGED <<pc, readable, manifest, urls, u_50, v_50, T2M, PS, DateTimes,
                   content, data, csv, writes, raised, df>>
    /\ UNCHANGED densVars

\* Lines 32-39: the payload is retrieved and written to the artifact.
RetrieveOk ==
    /\ pc = "loop"
    /\ i <= Len(urls)
    /\ \E samples \in SampleSeqs : content' = NC4(samples)
    /\ requests' = Append(requests, urls[i])
    /\ disk' = disk \cup {file_name(urls[i])}
    /\ pc' = "decode"
    /\ UNCHANGED <<readable, manifest, urls, i, u_50, v_50, T2M, PS, DateTimes,
                   data, log, csv, writes, raised, df>>
    /\ UNCHANGED densVars

\* The statements of lines 41-50 that can raise, in order.
Steps == <<"open", "U50M", "V50M", "T2M", "PS", "time", "close", "remove">>

StepIndex(step) == CHOOSE k \in 1..Len(Steps) : Steps[k] = step

\* Whether the statement `step` completed when the first failure is at failAt.
Completed(step, failAt) ==
    failAt = "none" \/ StepIndex(step) < StepIndex(failAt)

\* Lines 41-52: open the dataset, extend the accumulators, close, remove;
\* an exception at failAt leaves the try block for the except clause.  A
\* close that raises leaves the handle marked open.
Decode(failAt) ==
    /\ pc = "decode"
    /\ data' = IF Completed("open", failAt)
               THEN [bound |-> TRUE, file |-> file_name(urls[i]),
                     closed |-> Completed("close", failAt)]
               ELSE data
    /\ u_50' = IF Completed("U50M", failAt)
               THEN Extend(u_50, Column(content.U50M)) ELSE u_50
    /\ v_50' = IF Completed("V50M", failAt)
               THEN Extend(v_50, Column(content.V50M)) ELSE v_50
    /\ T2M' = IF Completed("T2M", failAt)
              THEN Extend(T2M, Column(content.T2M)) ELSE T2M
    /\ PS' = IF Completed("PS", failAt)
             THEN Extend(PS, Column(content.PS)) ELSE PS
    /\ DateTimes' = IF Completed("time", failAt)
                    THEN Extend(DateTimes, num2date(content.time, content.units))
                    ELSE DateTimes
    /\ disk' = IF Completed("remove", failAt)
               THEN disk \ {file_name(urls[i])} ELSE disk
    /\ log' = Append(log, [url |-> urls[i],
                           outcome |-> IF failAt = "none" THEN "ok" ELSE failAt,
                           content |-> content])
    /\ i' = i + 1
    /\ pc' = "loop"
    /\ UNCHANGED <<readable, manifest, urls, content, requests, csv, writes,
                   raised, df>>
    /\ UNCHANGED densVars

DecodeOk == Decode("none")

DecodeFails == \E failAt \in {Steps[k] : k \in 1..Len(Steps)} : Decode(failAt)

\* Lines 54-67: assemble the table and save it; writable is whether the
\* destination can be written.
Assemble ==
    /\ pc = "loop"
    /\ i > Len(urls)
    /\ \E writable \in BOOLEAN :
        LET r == create_dataframe(DateTimes, u_50, v_50, T2M, PS)
        IN  IF r.raised # "none"
            THEN /\ raised' = r.raised
                 /\ pc' = "failed"
                 /\ UNCHANGED <<csv, writes, df>>
            ELSE IF ~writable
            THEN /\ raised' = "OSError: destination"
                 /\ pc' = "failed"
                 /\ UNCHANGED <<csv, writes, df>>
            ELSE /\ csv' = r.df
                 /\ writes' = writes + 1
                 /\ df' = r.df
                 /\ pc' = "done"
                 /\ raised' = raised
    /\ UNCHANGED <<readable, manifest, urls, i, u_50, v_50, T2M, PS, DateTimes,
                   content, disk, data, requests, log>>
    /\ UNCHANGED densVars

Next ==
    \/ ReadManifest
    \/ RetrieveFails
    \/ RetrieveOk
    \/ DecodeOk
    \/ DecodeFails
    \/ Assemble

Spec == Init /\ [][Next]_vars

-----------------------------------------------------------------------------
(* compute_air_density on its own: the arguments are drawn at the start and *)
(* the function is called with them, and with the humidity left out.        *)

TempVals == {-1, 0, 1, 2}
PresVals == {-1, 0, 2}
HumiVals == {-10, 50, 100}

InitDensity ==
    /\ \E n \in 0..MaxLen :
        /\ temp_col \in [1..n -> TempVals]
        /\ pres_col \in [1..n -> PresVals]
        /\ humi_col \in {None} \cup {Some(h) : h \in [1..n -> HumiVals]}
    /\ rho = NotCalled
    /\ rho_omitted = NotCalled
    /\ pc = "idle"
    /\ readable = TRUE
    /\ manifest = <<>>
    /\ urls = <<>>
    /\ i = 1
    /\ u_50 = <<>> /\ v_50 = <<>> /\ T2M = <<>> /\ PS = <<>> /\ DateTimes = <<>>
    /\ content = NoContent
    /\ disk = {}
    /\ data = NoHandle
    /\ requests = <<>>
    /\ log = <<>>
    /\ csv = <<>>
    /\ writes = 0
    /\ raised = "none"
    /\ df = <<>>

\* compute_air_density(temp_col, pres_col, humi_col)
CallDensity ==
    /\ rho = NotCalled
    /\ rho' = compute_air_density(temp_col, pres_col, humi_col)
    /\ UNCHANGED <<temp_col, pres_col, humi_col, rho_omitted>>
    /\ UNCHANGED pipeVars

\* compute_air_density(temp_col, pres_col)
CallDensityOmitted ==
    /\ rho_omitted = NotCalled
    /\ rho_omitted' = compute_air_density(temp_col, pres_col, None)
    /\ UNCHANGED <<temp_col, pres_col, humi_col, rho>>
    /\ UNCHANGED pipeVars

NextDensity ==
    \/ CallDensity
    \/ CallDensityOmitted

SpecDensity == InitDensity /\ [][NextDensity]_vars

-----------------------------------------------------------------------------
(* Properties *)

\* The loop over the sources has ended (assembly is next, or done).
LoopEnded ==
    \/ pc = "loop" /\ i > Len(urls)
    \/ pc = "done"
    \/ pc = "failed" /\ readable

\* The samples of variable name that the sources of outcome "ok" carried, in
\* the order the sources were processed.
RECURSIVE OkSamples(_, _)
OkSamples(entries, name) ==
    IF entries = <<>> THEN <<>>
    ELSE LET e == Head(entries)
             own == IF e.outcome = "ok"
                    THEN [t \in 1..Len(e.content[name]) |-> e.content[name][t][1][1]]
                    ELSE <<>>
         IN  own \o OkSamples(Tail(entries), name)

\* Their instants, in 1e-3 s.
RECURSIVE OkTimes(_)
OkTimes(entries) ==
    IF entries = <<>> THEN <<>>
    ELSE LET e == Head(entries)
             own == IF e.outcome = "ok"
                    THEN [t \in 1..Len(e.content.time) |->
                             e.content.units * 1000 + e.content.time[t]]
                    ELSE <<>>
         IN  own \o OkTimes(Tail(entries))

SameLength ==
    /\ Len(u_50) = Len(v_50)
    /\ Len(v_50) = Len(T2M)
    /\ Len(T2M) = Len(PS)
    /\ Len(PS) = Len(DateTimes)

\* C1: between two sources (and after the last one) the five accumulators
\* u_50, v_50, T2M, PS and DateTimes have the same length.
C1_AccumulatorsSameLength ==
    pc \in {"loop", "done", "failed"} => SameLength

\* C2: once the processing of a source whose payload was written to the
\* artifact has finished, its dataset handle is closed and its artifact is no
\* longer on disk.
C2_ArtifactReleased ==
    pc \in {"loop", "done", "failed"} =>
        \A k \in 1..Len(log) :
            log[k].outcome \notin {"transport", "status", "create", "write"} =>
                /\ file_name(log[k].url) \notin disk
                /\ (data.bound /\ data.file = file_name(log[k].url)) => data.closed

\* C3: with a readable manifest and a source that succeeded with samples, the
\* run fails only because an accumulated sample of a succeeding source is
\* invalid for the density model or the destination cannot be written, never
\* because another source failed.
C3_SourceFailureNeverAborts ==
    (/\ pc = "failed"
     /\ readable
     /\ \E k \in 1..Len(log) : log[k].outcome = "ok" /\ Len(log[k].content.time) > 0)
    => \/ raised = "OSError: destination"
       \/ AnyNegative(OkSamples(log, "T2M"))
       \/ AnyNegative(OkSamples(log, "PS"))

OnlyRetrievalFailures ==
    \A k \in 1..Len(log) : log[k].outcome \in {"ok", "transport", "status"}

\* C4: when sources fail only at retrieval, the accumulated series at the end
\* of the loop is the concatenation, in manifest order, of the samples of the
\* sources that succeeded, and a saved table holds exactly those rows.
C4_RetrievalFailuresLeaveNoTrace ==
    (LoopEnded /\ OnlyRetrievalFailures) =>
        /\ u_50 = OkSamples(log, "U50M")
        /\ v_50 = OkSamples(log, "V50M")
        /\ T2M = OkSamples(log, "T2M")
        /\ PS = OkSamples(log, "PS")
        /\ Len(DateTimes) = Len(OkTimes(log))
        /\ \A k \in 1..Len(DateTimes) :
            DateTimes[k].sec * 1000 + DateTimes[k].us \div 1000 = OkTimes(log)[k]
        /\ pc = "done" =>
            /\ Len(csv) = Len(OkTimes(log))
            /\ \A k \in 1..Len(csv) :
                /\ csv[k].u_50 = OkSamples(log, "U50M")[k]
                /\ csv[k].v_50 = OkSamples(log, "V50M")[k]
                /\ csv[k].temp_2m = OkSamples(log, "T2M")[k]
                /\ csv[k].surface_pressure = OkSamples(log, "PS")[k]
                /\ csv[k].datetime.sec = OkTimes(log)[k] \div 1000

C4_Witness ==
    /\ pc = "done"
    /\ OnlyRetrievalFailures
    /\ Len(log) = 3
    /\ log[1].outcome = "ok" /\ log[2].outcome = "status" /\ log[3].outcome = "ok"
    /\ log[1].content # log[3].content
    /\ Len(csv) = 3

\* The humidity array a call uses, stated from the arguments.
HumidityInUseNegative(h) == h.given /\ \E k \in 1..Len(h.col) : h.col[k] < 0

HasNegative(col) == \E k \in DOMAIN col : col[k] < 0

\* C5: compute_air_density raises the invalid-input error, and returns no
\* density, exactly when an element of temperature, pressure or the humidity
\* in use is negative; the defaulted humidity never adds an error.
C5_NegativeInputRaises ==
    /\ rho # NotCalled =>
        IF HasNegative(temp_col) \/ HasNegative(pres_col)
           \/ HumidityInUseNegative(humi_col)
        THEN rho.raised = "ValueError: negative values" /\ rho.rho = <<>>
        ELSE rho.raised = "none" /\ Len(rho.rho) = Len(temp_col)
    /\ rho_omitted # NotCalled =>
        IF HasNegative(temp_col) \/ HasNegative(pres_col)
        THEN rho_omitted.raised = "ValueError: negative values"
             /\ rho_omitted.rho = <<>>
        ELSE rho_omitted.raised = "none" /\ Len(rho_omitted.rho) = Len(temp_col)

C5_Witness ==
    /\ rho.raised = "ValueError: negative values"
    /\ ~HasNegative(temp_col)
    /\ ~HasNegative(pres_col)
    /\ Len(temp_col) = 2
    /\ rho_omitted.raised = "none"

\* C6: the call with humidity omitted has the same outcome as the call with an
\* explicit humidity array of the same length holding 0.5 everywhere.
C6_OmittedHumidityIsHalf ==
    (/\ rho # NotCalled
     /\ rho_omitted # NotCalled
     /\ humi_col.given
     /\ Len(humi_col.col) = Len(temp_col)
     /\ \A k \in 1..Len(humi_col.col) : humi_col.col[k] = 50)
    => rho = rho_omitted

C6_Witness ==
    /\ rho # NotCalled
    /\ rho_omitted # NotCalled
    /\ humi_col.given
    /\ Len(temp_col) = 2
    /\ \A k \in 1..Len(humi_col.col) : humi_col.col[k] = 50
    /\ rho.raised = "none"
    /\ rho.rho[1].kind = "finite"

\* C7: a saved table has one row per accumulated sample, row k carrying the
\* timestamp, pressure, wind components and temperature of sample k and the
\* density and wind speed derived from that sample, in accumulation order.
C7_RowsFollowAccumulation ==
    pc = "done" =>
        /\ Len(csv) = Len(DateTimes)
        /\ Len(csv) = Len(u_50) /\ Len(csv) = Len(v_50)
        /\ Len(csv) = Len(T2M) /\ Len(csv) = Len(PS)
        /\ df = csv
        /\ \A k \in 1..Len(csv) :
            /\ csv[k].datetime.sec = DateTimes[k].sec
            /\ csv[k].surface_pressure = PS[k]
            /\ csv[k].u_50 = u_50[k]
            /\ csv[k].v_50 = v_50[k]
            /\ csv[k].temp_2m = T2M[k]
            /\ csv[k].dens_50m = RhoAt(T2M[k], PS[k], 50)
            /\ csv[k].ws_50m * csv[k].ws_50m
                    <= (u_50[k] * u_50[k] + v_50[k] * v_50[k]) * 1000000
            /\ (csv[k].ws_50m + 1) * (csv[k].ws_50m + 1)
                    > (u_50[k] * u_50[k] + v_50[k] * v_50[k]) * 1000000

C7_Witness ==
    /\ pc = "done"
    /\ Len(csv) = 4
    /\ csv[1].datetime.sec > csv[2].datetime.sec
    /\ csv[1].ws_50m = 5000
    /\ DateTimes[1].us # 0

\* C8: the retrievals made so far are the manifest's lines after the header,
\* in order, each once; a retrieval is made only when every earlier source
\* has ended; when the loop ends every such line has been retrieved.
C8_OneRetrievalPerSourceInOrder ==
    /\ Len(requests) <= Len(manifest) - 1 \/ requests = <<>>
    /\ \A k \in 1..Len(requests) : requests[k] = manifest[k + 1]
    /\ Len(requests) = Len(log) + (IF pc = "decode" THEN 1 ELSE 0)
    /\ LoopEnded => Len(requests) = (IF manifest = <<>> THEN 0 ELSE Len(manifest) - 1)

C8_Witness ==
    /\ LoopEnded
    /\ Len(requests) = 3
    /\ log[1].outcome = "transport"
    /\ log[2].outcome = "T2M"
    /\ log[3].outcome = "ok"

\* C9: the destination is written at most once, only after every source has
\* been processed; with a negative accumulated temperature or pressure the
\* run ends with the invalid-input error and the destination unwritten.
C9_InvalidInputPropagates ==
    /\ writes <= 1
    /\ csv # <<>> => writes = 1
    /\ writes = 1 => pc = "done" /\ Len(log) = Len(urls)
    /\ (pc \in {"done", "failed"} /\ readable
        /\ (AnyNegative(T2M) \/ AnyNegative(PS)))
       => raised = "ValueError: negative values" /\ writes = 0

\* C10: with an unreadable manifest the run aborts with that error before any
\* source: no retrieval, no temporary artifact, no write of the destination.
C10_UnreadableManifestAborts ==
    ~readable =>
        /\ pc \in {"start", "failed"}
        /\ pc = "failed" => raised = "OSError: manifest"
        /\ requests = <<>>
        /\ disk = {}
        /\ writes = 0
        /\ csv = <<>>

C10_Witness ==
    /\ ~readable
    /\ pc = "failed"
    /\ Len(manifest) = 3

=============================================================================
